---- MODULE Spec2Model ----
(***************************************************************************)
(* A model of the primitive layer of simple_asn1: the tag, length and      *)
(* base-128 codecs (encode.rs, decode.rs), the OID encoder (oid.rs) and    *)
(* the equality of ASN1Block (asn1_data_types.rs).                         *)
(*                                                                         *)
(* Bytes are the integers 0..255, a buffer is a sequence of bytes, and a   *)
(* cursor is a 0-based usize.  usize is UsizeBytes bytes wide.  A panic    *)
(* of the Rust code (an index out of bounds, an unwrap of None, an         *)
(* arithmetic overflow) is an explicit outcome of the operators.           *)
(***************************************************************************)
EXTENDS Integers, Sequences, FiniteSets

VARIABLES
    buf,       \* the byte buffer handed to the decoders
    cursor,    \* the caller's cursor into buf (the index argument)
    origin,    \* the cursor before the first decode call
    items,     \* the encoder calls whose outputs were written to buf, in order
    trail,     \* the number of arbitrary bytes appended to buf
    cut,       \* whether the final byte of buf was removed
    calls,     \* the decode calls made so far, with their outcomes
    panicked,  \* whether a call panicked
    oid,       \* the components of the OID under construction
    raw,       \* the outcome of OID::as_raw
    lhs,       \* the left operand of ==
    rhs,       \* the right operand of ==
    eqres      \* the outcome of lhs == rhs

codecVars == <<buf, cursor, origin, items, trail, cut, calls>>
oidVars == <<oid, raw>>
eqVars == <<lhs, rhs, eqres>>
vars == <<buf, cursor, origin, items, trail, cut, calls, panicked, oid, raw,
          lhs, rhs, eqres>>

(***************************************************************************)
(* Bounds of the model.                                                    *)
(***************************************************************************)
\* size_of::<usize>() of the modelled platform, in bytes
UsizeBytes == 2
\* tag numbers and base-128 values have at most this many 7-bit groups
MaxDigits == 2
\* encodings concatenated into one buffer (SpecStream)
MaxItems == 2
\* arbitrary bytes appended after the encodings
MaxTrail == 1
\* decode calls made on one buffer
MaxCalls == 2
\* components of an OID
MaxOidLen == 7
\* nesting depth of a block
MaxDepth == 1

UsizeMax == 2 ^ (8 * UsizeBytes) - 1
\* length of a buffer that holds no encoding, only arbitrary bytes
MaxRaw == UsizeBytes + 1
\* the 7-bit groups a decoded BigUint may have for its value to fit the
\* integers of the model checker (4 * 7 = 28 bits)
MaxGroups == 28 \div 7

(***************************************************************************)
(* Bit operations on naturals.                                             *)
(***************************************************************************)
RECURSIVE BitAnd(_, _)
BitAnd(a, b) ==
    IF a = 0 \/ b = 0 THEN 0
    ELSE (a % 2) * (b % 2) + 2 * BitAnd(a \div 2, b \div 2)

RECURSIVE BitOr(_, _)
BitOr(a, b) ==
    IF a = 0 THEN b
    ELSE IF b = 0 THEN a
    ELSE (IF a % 2 = 1 \/ b % 2 = 1 THEN 1 ELSE 0) + 2 * BitOr(a \div 2, b \div 2)

Reverse(s) == [j \in 1..Len(s) |-> s[Len(s) + 1 - j]]

\* BigUint::to_u8: the value, or None
NoneU8 == -1
ToU8(x) == IF x <= 255 THEN x ELSE NoneU8

\* `x as u8`: truncation to the low 8 bits
AsU8(x) == x % 256

Class == {"Universal", "Application", "ContextSpecific", "Private"}

(***************************************************************************)
(* encode.rs                                                               *)
(***************************************************************************)
\* the outcome of an encoder: the bytes, or a panic
EncBytes(b) == [panic |-> FALSE, bytes |-> b]
EncPanic == [panic |-> TRUE, bytes |-> <<>>]

encode_class(c) ==
    CASE c = "Universal" -> 0
      [] c = "Application" -> 64
      [] c = "ContextSpecific" -> 128
      [] c = "Private" -> 192

\* the while loop of base127; res is built backwards
RECURSIVE base127_loop(_, _)
base127_loop(acc, res) ==
    IF acc > 0
    THEN LET digit == acc % 128
             acc2 == acc \div 128
         IN  IF ToU8(digit) = NoneU8 THEN EncPanic
             ELSE IF res = <<>> THEN base127_loop(acc2, Append(res, ToU8(digit)))
             ELSE base127_loop(acc2, Append(res, BitOr(ToU8(digit), 128)))
    ELSE EncBytes(Reverse(res))

encode_base127_nozero(v) == base127_loop(v, <<>>)

encode_base127(v) ==
    IF v = 0 THEN EncBytes(<<0>>) ELSE base127_loop(v, <<>>)

FitsShortTag_le(t) == ToU8(t) # NoneU8 /\ ToU8(t) <= 31

\* the guard of the first match arm of tag: Some(x) if x < 31
FitsShortTag(t) == ToU8(t) # NoneU8 /\ ToU8(t) < 31

encode_tag(c, constructed, t) ==
    LET cbyte == encode_class(c)
    IN  IF FitsShortTag(t)
        THEN LET x == IF constructed THEN BitOr(ToU8(t), 32) ELSE ToU8(t)
             IN  EncBytes(<<BitOr(cbyte, x)>>)
        ELSE LET res == encode_base127(t)
                 x0 == BitOr(cbyte, 31)
                 x == IF constructed THEN BitOr(x0, 32) ELSE x0
             IN  IF res.panic THEN EncPanic ELSE EncBytes(<<x>> \o res.bytes)

\* the while loop of len; bstr is built backwards
RECURSIVE len_loop(_, _)
len_loop(work, bstr) ==
    IF work > 0
    THEN len_loop(work \div 256, Append(bstr, AsU8(work)))
    ELSE LET len == AsU8(Len(bstr))
         IN  Reverse(Append(bstr, BitOr(len, 128)))

encode_len_le(x) == IF x <= 128 THEN <<AsU8(x)>> ELSE len_loop(x, <<>>)

encode_len(x) == IF x < 128 THEN <<AsU8(x)>> ELSE len_loop(x, <<>>)

(***************************************************************************)
(* decode.rs                                                               *)
(***************************************************************************)
\* the outcome of a decoder and the cursor it leaves: st is "Ok", the name
\* of the ASN1DecodeErr, or "panic"
Res(st, num, constructed, class, index) ==
    [st |-> st, num |-> num, constructed |-> constructed, class |-> class,
     index |-> index]
Incomplete(index) == Res("Incomplete", 0, FALSE, "-", index)
Panicked(index) == Res("panic", 0, FALSE, "-", index)

\* i[*index]: the byte, or OutOfBounds where Rust panics
OutOfBounds == -1
Get(i, index) == IF index < Len(i) THEN i[index + 1] ELSE OutOfBounds

\* *index += 1: the sum, or Overflow where the addition overflows usize
Overflow == -1
Inc(index) == IF index + 1 > UsizeMax THEN Overflow ELSE index + 1

AtEnd_gt(i, index) == index > Len(i)

\* the exhaustion check made before every read: *index >= i.len()
AtEnd(i, index) == index >= Len(i)

decode_class(i) ==
    LET v == i \div 64
    IN  CASE v = 0 -> [st |-> "Ok", class |-> "Universal"]
          [] v = 1 -> [st |-> "Ok", class |-> "Application"]
          [] v = 2 -> [st |-> "Ok", class |-> "ContextSpecific"]
          [] v = 3 -> [st |-> "Ok", class |-> "Private"]
          [] OTHER -> [st |-> "InvalidClass", class |-> "-"]

\* the loop of base127
RECURSIVE decode_base127_loop(_, _, _)
decode_base127_loop(i, index, res) ==
    IF AtEnd(i, index) THEN Incomplete(index)
    ELSE LET nextbyte == Get(i, index)
             index2 == Inc(index)
         IN  IF nextbyte = OutOfBounds \/ index2 = Overflow THEN Panicked(index)
             ELSE LET res2 == res * 128 + BitAnd(nextbyte, 127)
                  IN  IF BitAnd(nextbyte, 128) = 0
                      THEN Res("Ok", res2, FALSE, "-", index2)
                      ELSE decode_base127_loop(i, index2, res2)

decode_base127(i, index) == decode_base127_loop(i, index, 0)

decode_tag(i, index) ==
    IF AtEnd(i, index) THEN Incomplete(index)
    ELSE LET tagbyte == Get(i, index)
         IN  IF tagbyte = OutOfBounds THEN Panicked(index)
             ELSE LET constructed == BitAnd(tagbyte, 32) # 0
                      class == decode_class(tagbyte)
                      basetag == BitAnd(tagbyte, 31)
                      index2 == Inc(index)
                  IN  IF class.st # "Ok"
                      THEN Res("InvalidClass", tagbyte, FALSE, "-", index)
                      ELSE IF index2 = Overflow THEN Panicked(index)
                      ELSE IF basetag = 31
                      THEN LET res == decode_base127(i, index2)
                           IN  IF res.st = "Ok"
                               THEN Res("Ok", res.num, constructed, class.class, res.index)
                               ELSE res
                      ELSE Res("Ok", basetag, constructed, class.class, index2)

\* res << 8 on usize: the bits shifted out are lost
Shl8(res) == (res % (2 ^ (8 * (UsizeBytes - 1)))) * 256

\* a + b on usize, or Overflow
AddUsize(a, b) == IF a + b > UsizeMax THEN Overflow ELSE a + b

RECURSIVE length_loop_lenient(_, _, _, _)
length_loop_lenient(i, index, lenlen, res) ==
    IF lenlen > 0
    THEN IF AtEnd(i, index) THEN Res("Ok", res, FALSE, "-", index)
         ELSE LET b == Get(i, index)
                  index2 == Inc(index)
              IN  IF b = OutOfBounds \/ index2 = Overflow THEN Panicked(index)
                  ELSE LET res2 == AddUsize(Shl8(res), b)
                       IN  IF res2 = Overflow THEN Panicked(index)
                           ELSE length_loop_lenient(i, index2, lenlen - 1, res2)
    ELSE Res("Ok", res, FALSE, "-", index)

\* the while loop of length
RECURSIVE length_loop(_, _, _, _)
length_loop(i, index, lenlen, res) ==
    IF lenlen > 0
    THEN IF AtEnd(i, index) THEN Incomplete(index)
         ELSE LET b == Get(i, index)
                  index2 == Inc(index)
              IN  IF b = OutOfBounds \/ index2 = Overflow THEN Panicked(index)
                  ELSE LET res2 == AddUsize(Shl8(res), b)
                       IN  IF res2 = Overflow THEN Panicked(index)
                           ELSE length_loop(i, index2, lenlen - 1, res2)
    ELSE Res("Ok", res, FALSE, "-", index)

LenLenTooLarge_ge(lenlen) == lenlen >= UsizeBytes

\* lenlen > size_of::<usize>()
LenLenTooLarge(lenlen) == lenlen > UsizeBytes

decode_length_stuck(i, index) ==
    IF AtEnd(i, index) THEN Incomplete(index)
    ELSE LET startbyte == Get(i, index)
             index2 == Inc(index)
         IN  IF startbyte = OutOfBounds \/ index2 = Overflow THEN Panicked(index)
             ELSE IF startbyte >= 128
             THEN LET lenlen == BitAnd(startbyte, 127)
                  IN  IF LenLenTooLarge(lenlen)
                      THEN Res("LengthTooLarge", lenlen, FALSE, "-", index2)
                      ELSE length_loop(i, index2, lenlen, 0)
             ELSE Res("Ok", startbyte, FALSE, "-", index)

decode_length(i, index) ==
    IF AtEnd(i, index) THEN Incomplete(index)
    ELSE LET startbyte == Get(i, index)
             index2 == Inc(index)
         IN  IF startbyte = OutOfBounds \/ index2 = Overflow THEN Panicked(index)
             ELSE IF startbyte >= 128
             THEN LET lenlen == BitAnd(startbyte, 127)
                  IN  IF LenLenTooLarge(lenlen)
                      THEN Res("LengthTooLarge", lenlen, FALSE, "-", index2)
                      ELSE length_loop(i, index2, lenlen, 0)
             ELSE Res("Ok", startbyte, FALSE, "-", index2)

(***************************************************************************)
(* oid.rs                                                                  *)
(***************************************************************************)
RawOk(b) == [st |-> "Ok", bytes |-> b]
RawErr(e) == [st |-> e, bytes |-> <<>>]
NoRaw == [st |-> "none", bytes |-> <<>>]

\* u8 multiplication and addition, or Overflow
MulU8(a, b) == IF a * b > 255 THEN Overflow ELSE a * b
AddU8(a, b) == IF a + b > 255 THEN Overflow ELSE a + b

bound_175(v1) == 175

\* let bound = if v1 == &two { u175 } else { u39 }
bound(v1) == IF v1 = 2 THEN 175 ELSE 39

rest_skip1(v) == SubSeq(v, 2, Len(v))

\* self.0.iter().skip(2)
rest(v) == SubSeq(v, 3, Len(v))

\* the for loop of as_raw over the remaining components
RECURSIVE as_raw_loop(_, _)
as_raw_loop(nums, body) ==
    IF nums = <<>> THEN RawOk(body)
    ELSE LET local == encode_base127(Head(nums))
         IN  IF local.panic THEN RawErr("panic")
             ELSE as_raw_loop(Tail(nums), body \o local.bytes)

as_raw(v) ==
    IF Len(v) >= 2
    THEN LET v1 == v[1]
             v2 == v[2]
         IN  IF v1 > 2 THEN RawErr("ObjectIdentVal1TooLarge")
             ELSE IF v2 > bound(v1) THEN RawErr("ObjectIdentVal2TooLarge")
             ELSE LET value1 == ToU8(v1)
                      value2 == ToU8(v2)
                  IN  IF value1 = NoneU8 \/ value2 = NoneU8 THEN RawErr("panic")
                      ELSE LET prod == MulU8(value1, 40)
                               byte1 == IF prod = Overflow THEN Overflow
                                        ELSE AddU8(prod, value2)
                           IN  IF byte1 = Overflow THEN RawErr("panic")
                               ELSE as_raw_loop(rest(v), <<byte1>>)
    ELSE RawErr("ObjectIdentHasTooFewFields")

(***************************************************************************)
(* asn1_data_types.rs                                                      *)
(*                                                                         *)
(* A block is a record of its variant, its offset and its payload: class,  *)
(* constructed flag and tag (Explicit, Unknown), bit count (BitString),    *)
(* val (the bool, integer, bytes, text, OID or time, as a sequence of      *)
(* integers) and children (Sequence, Set; the boxed block of Explicit).    *)
(***************************************************************************)
Block(variant, offset, class, constructed, tag, bits, val, children) ==
    [variant |-> variant, offset |-> offset, class |-> class,
     constructed |-> constructed, tag |-> tag, bits |-> bits, val |-> val,
     children |-> children]

\* the variants of the shape (usize, payload)
PrimVariants ==
    {"Boolean", "Integer", "OctetString", "ObjectIdentifier", "UTF8String",
     "PrintableString", "TeletexString", "IA5String", "UTCTime",
     "GeneralizedTime", "UniversalString", "BMPString"}

Prim(variant, o, v) == Block(variant, o, "-", FALSE, 0, 0, v, <<>>)
BitString(o, n, v) == Block("BitString", o, "-", FALSE, 0, n, v, <<>>)
Null(o) == Block("Null", o, "-", FALSE, 0, 0, <<>>, <<>>)
Sequence(o, bs) == Block("Sequence", o, "-", FALSE, 0, 0, <<>>, bs)
Set(o, bs) == Block("Set", o, "-", FALSE, 0, 0, <<>>, bs)
Explicit(c, o, t, b) == Block("Explicit", o, c, FALSE, t, 0, <<>>, <<b>>)
Unknown(c, k, o, t, v) == Block("Unknown", o, c, k, t, 0, v, <<>>)

explicit_eq_offset(a, b) ==
    a.class = b.class /\ a.offset = b.offset /\ a.tag = b.tag

\* the class and tag comparison of the Explicit arm: (a1 == a2) && (b1 == b2)
explicit_eq(a, b) == a.class = b.class /\ a.tag = b.tag

\* PartialEq for ASN1Block; Vec<ASN1Block> and Box<ASN1Block> compare by it
RECURSIVE ASN1Block_eq(_, _)
ASN1Block_eq(a, b) ==
    IF a.variant # b.variant THEN FALSE
    ELSE CASE a.variant \in PrimVariants -> a.val = b.val
           [] a.variant = "BitString" -> a.bits = b.bits /\ a.val = b.val
           [] a.variant = "Null" -> TRUE
           [] a.variant \in {"Sequence", "Set"} ->
                  /\ Len(a.children) = Len(b.children)
                  /\ \A j \in 1..Len(a.children) :
                         ASN1Block_eq(a.children[j], b.children[j])
           [] a.variant = "Explicit" ->
                  explicit_eq(a, b) /\ ASN1Block_eq(a.children[1], b.children[1])
           [] a.variant = "Unknown" ->
                  /\ a.class = b.class /\ a.constructed = b.constructed
                  /\ a.tag = b.tag /\ a.val = b.val

(***************************************************************************)
(* The inputs.                                                             *)
(***************************************************************************)
\* tag numbers and base-128 values: the boundaries of the short tag form,
\* of u8 and of every count of 7-bit groups up to MaxDigits
BigVals ==
    {0, 1, 30, 31, 32, 127, 128, 255, 256}
        \cup {128 ^ d - 1 : d \in 1..MaxDigits}
        \cup {128 ^ d : d \in 1..(MaxDigits - 1)}

\* lengths: the boundaries of the short form and of every byte count of usize
LenVals ==
    {0, 1, 127, 128, 255, 256, UsizeMax}
        \cup {256 ^ d - 1 : d \in 1..UsizeBytes}
        \cup {256 ^ d : d \in 1..(UsizeBytes - 1)}

\* arbitrary bytes: a terminator, the high-tag marker, continuation bytes and
\* the long-form length prefixes around size_of::<usize>()
ByteSample == {0, 31, 127, 128, 128 + UsizeBytes, 129 + UsizeBytes, 255}

\* the inputs of SpecStream
StreamHeads ==
    {<<"Universal", FALSE>>, <<"Application", TRUE>>,
     <<"ContextSpecific", FALSE>>, <<"Private", TRUE>>}
StreamTagNums == {30, 31, 300}
StreamLens == {127, 300}
StreamBase127 == {200}
TrailSample == {0, 255}

\* OID components, by position
OidFirst == {0, 1, 2, 3, 256}
OidSecond == {0, 2, 39, 40, 175, 176, 256}
OidTail == {0, 1, 840, 113549}
OidVals(pos) == IF pos = 1 THEN OidFirst ELSE IF pos = 2 THEN OidSecond ELSE OidTail

(***************************************************************************)
(* The state machine: a caller builds a buffer from encoder outputs and     *)
(* arbitrary bytes, then makes decode calls that share one cursor; or it    *)
(* builds an OID and calls as_raw.                                          *)
(***************************************************************************)
NoBlock == [variant |-> "none"]

Item(kind, c, k, n, b) ==
    [kind |-> kind, class |-> c, constructed |-> k, num |-> n, bytes |-> b]
Call(op, start, out) == [op |-> op, start |-> start, out |-> out]

OidIdle == oid = <<>> /\ raw = NoRaw
CodecIdle == buf = <<>> /\ items = <<>> /\ calls = <<>> /\ origin = 0
Building == calls = <<>> /\ ~cut /\ origin = 0 /\ ~panicked /\ OidIdle

Init ==
    /\ buf = <<>>
    /\ cursor = 0
    /\ origin = 0
    /\ items = <<>>
    /\ trail = 0
    /\ cut = FALSE
    /\ calls = <<>>
    /\ panicked = FALSE
    /\ oid = <<>>
    /\ raw = NoRaw
    /\ lhs = NoBlock
    /\ rhs = NoBlock
    /\ eqres = "none"

\* buf.append(encode::tag(c, constructed, t))
EncodeTag(c, k, t) ==
    /\ Building /\ trail = 0
    /\ LET e == encode_tag(c, k, t)
       IN  /\ panicked' = e.panic
           /\ buf' = buf \o e.bytes
           /\ items' = Append(items, Item("tag", c, k, t, e.bytes))
    /\ UNCHANGED <<cursor, origin, trail, cut, calls, oidVars, eqVars>>

\* buf.append(encode::len(x))
EncodeLen(x) ==
    /\ Building /\ trail = 0
    /\ LET e == encode_len(x)
       IN  /\ buf' = buf \o e
           /\ items' = Append(items, Item("length", "-", FALSE, x, e))
    /\ UNCHANGED <<cursor, origin, trail, cut, calls, panicked, oidVars, eqVars>>

\* buf.append(encode::base127(v))
EncodeBase127(v) ==
    /\ Building /\ trail = 0
    /\ LET e == encode_base127(v)
       IN  /\ panicked' = e.panic
           /\ buf' = buf \o e.bytes
           /\ items' = Append(items, Item("base127", "-", FALSE, v, e.bytes))
    /\ UNCHANGED <<cursor, origin, trail, cut, calls, oidVars, eqVars>>

\* buf.push(b), an arbitrary byte
AppendByte(b) ==
    /\ Building
    /\ trail < (IF items = <<>> THEN MaxRaw ELSE MaxTrail)
    /\ buf' = Append(buf, b)
    /\ trail' = trail + 1
    /\ UNCHANGED <<cursor, origin, items, cut, calls, panicked, oidVars, eqVars>>

\* buf.pop(): the final byte of a single encoding is removed
Truncate ==
    /\ Building /\ trail = 0 /\ Len(items) = 1
    /\ buf' = SubSeq(buf, 1, Len(buf) - 1)
    /\ cut' = TRUE
    /\ UNCHANGED <<cursor, origin, items, trail, calls, panicked, oidVars, eqVars>>

\* the caller starts at a cursor of its choice
Seek(i) ==
    /\ Building /\ items = <<>> /\ i > 0
    /\ cursor' = i
    /\ origin' = i
    /\ UNCHANGED <<buf, items, trail, cut, calls, panicked, oidVars, eqVars>>

\* the bytes of i from index on that carry a continuation bit
RECURSIVE Run(_, _)
Run(i, index) ==
    IF index < Len(i) /\ i[index + 1] >= 128 THEN 1 + Run(i, index + 1) ELSE 0

\* the BigUint that base127 builds from index on fits the integers of the
\* model checker
BigFits(i, index) == Run(i, index) < MaxGroups

CanDecode ==
    /\ OidIdle /\ ~panicked
    /\ Len(calls) < MaxCalls
    /\ calls # <<>> => calls[Len(calls)].out.st = "Ok"

Record(op, r) ==
    /\ calls' = Append(calls, Call(op, cursor, r))
    /\ cursor' = r.index
    /\ panicked' = (r.st = "panic")
    /\ UNCHANGED <<buf, origin, items, trail, cut, oidVars, eqVars>>

\* decode::tag(&buf, &mut cursor)
DecodeTag ==
    /\ CanDecode
    /\ (cursor < Len(buf) /\ BitAnd(buf[cursor + 1], 31) = 31) => BigFits(buf, cursor + 1)
    /\ Record("tag", decode_tag(buf, cursor))

\* decode::length(&buf, &mut cursor)
DecodeLength ==
    /\ CanDecode
    /\ Record("length", decode_length(buf, cursor))

\* decode::base127(&buf, &mut cursor)
DecodeBase127 ==
    /\ CanDecode
    /\ BigFits(buf, cursor)
    /\ Record("base127", decode_base127(buf, cursor))

\* the caller pushes a component onto the vector handed to OID::new
OidPush(v) ==
    /\ CodecIdle /\ raw = NoRaw /\ ~panicked
    /\ Len(oid) < MaxOidLen
    /\ oid' = Append(oid, v)
    /\ UNCHANGED <<codecVars, panicked, raw, eqVars>>

\* OID::new(oid).as_raw()
AsRaw ==
    /\ CodecIdle /\ raw = NoRaw /\ ~panicked
    /\ raw' = as_raw(oid)
    /\ panicked' = (raw'.st = "panic")
    /\ UNCHANGED <<codecVars, oid, eqVars>>

\* one encoding or arbitrary bytes, any cursor, any decoder; or an OID
Next ==
    \/ \E c \in Class, k \in BOOLEAN, t \in BigVals : items = <<>> /\ EncodeTag(c, k, t)
    \/ \E x \in LenVals : items = <<>> /\ EncodeLen(x)
    \/ \E v \in BigVals : items = <<>> /\ EncodeBase127(v)
    \/ \E b \in ByteSample : AppendByte(b)
    \/ Truncate
    \/ \E i \in (1..(Len(buf) + 1)) \cup {UsizeMax} : Seek(i)
    \/ DecodeTag
    \/ DecodeLength
    \/ DecodeBase127
    \/ \E v \in OidVals(Len(oid) + 1) : OidPush(v)
    \/ AsRaw

Spec == Init /\ [][Next]_vars

\* several encodings in one buffer, decoded one after the other
NextStream ==
    \/ \E h \in StreamHeads, t \in StreamTagNums :
            Len(items) < MaxItems /\ EncodeTag(h[1], h[2], t)
    \/ \E x \in StreamLens : Len(items) < MaxItems /\ EncodeLen(x)
    \/ \E v \in StreamBase127 : Len(items) < MaxItems /\ EncodeBase127(v)
    \/ \E b \in TrailSample : items # <<>> /\ AppendByte(b)
    \/ DecodeTag
    \/ DecodeLength
    \/ DecodeBase127

SpecStream == Init /\ [][NextStream]_vars

(***************************************************************************)
(* The properties.                                                         *)
(***************************************************************************)
\* buf is exactly one encoding of the given kind and the first decode call,
\* from cursor 0, used the given decoder
RoundTripOf(kind, op) ==
    /\ Len(items) = 1 /\ items[1].kind = kind
    /\ trail = 0 /\ ~cut /\ origin = 0
    /\ calls # <<>> /\ calls[1].op = op

\* C1: decoding the bytes of encode tag(class, constructed, t) from cursor 0
\* succeeds and returns exactly (t, constructed, class), for every class,
\* flag and tag number.
TagRoundTrip ==
    RoundTripOf("tag", "tag") =>
        /\ calls[1].out.st = "Ok"
        /\ calls[1].out.num = items[1].num
        /\ calls[1].out.constructed = items[1].constructed
        /\ calls[1].out.class = items[1].class

TagRoundTripWitness ==
    /\ RoundTripOf("tag", "tag")
    /\ items[1].num > 255 /\ items[1].constructed /\ items[1].class = "Private"
    /\ calls[1].out.st = "Ok" /\ calls[1].out.num = items[1].num

\* C2: decoding the bytes of encode base127(n) from cursor 0 succeeds and
\* returns n, and encode base127(0) is the single byte 0x00.
Base127RoundTrip ==
    /\ RoundTripOf("base127", "base127") =>
           calls[1].out.st = "Ok" /\ calls[1].out.num = items[1].num
    /\ \A j \in 1..Len(items) :
           (items[j].kind = "base127" /\ items[j].num = 0) => items[j].bytes = <<0>>

Base127RoundTripWitness ==
    /\ RoundTripOf("base127", "base127")
    /\ items[1].num >= 128
    /\ calls[1].out.st = "Ok" /\ calls[1].out.num = items[1].num

\* C3: decoding the bytes of encode len(L) from cursor 0 succeeds and returns
\* L, for every L up to usize::MAX; for L < 128 the encoding is the one byte
\* L, and for L = 128 it is [0x81, 0x80].
LengthRoundTrip ==
    /\ RoundTripOf("length", "length") =>
           calls[1].out.st = "Ok" /\ calls[1].out.num = items[1].num
    /\ \A j \in 1..Len(items) :
           items[j].kind = "length" =>
               /\ items[j].num < 128 => items[j].bytes = <<items[j].num>>
               /\ items[j].num = 128 => items[j].bytes = <<129, 128>>

LengthRoundTripWitness ==
    /\ RoundTripOf("length", "length")
    /\ items[1].num = UsizeMax
    /\ calls[1].out.st = "Ok" /\ calls[1].out.num = UsizeMax

\* C4: decoding a valid encoding of tag, len or base127 whose final byte was
\* removed, with the matching decoder from cursor 0, fails with Incomplete.
TruncatedIsIncomplete ==
    (cut /\ origin = 0 /\ calls # <<>> /\ calls[1].op = items[1].kind) =>
        calls[1].out.st = "Incomplete"

TruncatedIsIncompleteWitness ==
    /\ cut /\ origin = 0 /\ calls # <<>>
    /\ items[1].kind = "length" /\ items[1].num >= 256 /\ calls[1].op = "length"
    /\ calls[1].out.st = "Incomplete"

\* the outcome the OID rules prescribe for as_raw
OidVerdict(v) ==
    IF Len(v) < 2 THEN "ObjectIdentHasTooFewFields"
    ELSE IF v[1] > 2 THEN "ObjectIdentVal1TooLarge"
    ELSE IF (v[1] = 2 /\ v[2] > 175) \/ (v[1] < 2 /\ v[2] > 39)
    THEN "ObjectIdentVal2TooLarge"
    ELSE "Ok"

\* C5: as_raw fails with ObjectIdentHasTooFewFields on fewer than two
\* components, with ObjectIdentVal1TooLarge when X > 2, with
\* ObjectIdentVal2TooLarge when Y exceeds 175 (X = 2) or 39 (X < 2), and
\* succeeds otherwise; [2, 175, ...] succeeds with first byte 255.
OidValidation ==
    raw # NoRaw =>
        /\ raw.st = OidVerdict(oid)
        /\ (Len(oid) >= 2 /\ oid[1] = 2 /\ oid[2] = 175) => raw.bytes[1] = 255
        /\ oid = <<2, 176>> => raw.st = "ObjectIdentVal2TooLarge"
        /\ oid = <<1, 40>> => raw.st = "ObjectIdentVal2TooLarge"
        /\ oid = <<3, 0>> => raw.st = "ObjectIdentVal1TooLarge"
        /\ oid = <<1>> => raw.st = "ObjectIdentHasTooFewFields"

OidValidationWitness ==
    /\ raw.st = "Ok" /\ Len(oid) > 2 /\ oid[1] = 2 /\ oid[2] = 175

\* the encodings of the components from the third on, in order
RECURSIVE TailBytes(_, _)
TailBytes(v, n) ==
    IF n < 3 THEN <<>> ELSE TailBytes(v, n - 1) \o encode_base127(v[n]).bytes

\* C6: when as_raw succeeds on [X, Y, c3, ..., cn] the result is the byte
\* 40*X + Y, a value in 0..255, followed by encode base127(ci) for
\* i = 3..n in order; [1,2,840,113549,1,1,1] gives
\* 2A 86 48 86 F7 0D 01 01 01.
OidCanonical ==
    raw.st = "Ok" =>
        /\ 40 * oid[1] + oid[2] \in 0..255
        /\ raw.bytes = <<40 * oid[1] + oid[2]>> \o TailBytes(oid, Len(oid))
        /\ oid = <<1, 2, 840, 113549, 1, 1, 1>> =>
               raw.bytes = <<42, 134, 72, 134, 247, 13, 1, 1, 1>>

OidCanonicalWitness ==
    raw.st = "Ok" /\ oid = <<1, 2, 840, 113549, 1, 1, 1>>

\* C7: no decoder reads the buffer out of bounds or aborts, whatever the
\* buffer and the starting cursor; the panic branch of encode base127 is
\* never taken; the unwraps and the byte arithmetic of as_raw never fail.
NoPanic ==
    /\ ~panicked
    /\ \A j \in 1..Len(calls) : calls[j].out.st # "panic"
    /\ raw.st # "panic"

NoPanicWitness ==
    /\ items = <<>> /\ trail > 0 /\ origin = Len(buf)
    /\ calls # <<>> /\ calls[1].out.st = "Incomplete"

\* C8: decode length on a first byte b >= 0x80 fails with
\* LengthTooLarge(b & 0x7F) when that count exceeds size_of::<usize>(),
\* whatever follows; otherwise it never fails with LengthTooLarge and fails
\* with Incomplete exactly when fewer than that many bytes follow b.
LengthSizeRejection ==
    \A j \in 1..Len(calls) :
        LET c == calls[j]
        IN  (c.op = "length" /\ c.start < Len(buf) /\ buf[c.start + 1] >= 128) =>
                LET lenlen == buf[c.start + 1] - 128
                    follow == Len(buf) - (c.start + 1)
                IN  IF lenlen > UsizeBytes
                    THEN c.out.st = "LengthTooLarge" /\ c.out.num = lenlen
                    ELSE /\ c.out.st # "LengthTooLarge"
                         /\ c.out.st = "Incomplete" <=> follow < lenlen

LengthSizeRejectionWitness ==
    /\ Len(buf) = 1 /\ buf[1] > 128 + UsizeBytes
    /\ calls # <<>> /\ calls[1].op = "length" /\ calls[1].start = 0
    /\ calls[1].out.st = "LengthTooLarge"

\* the summed length of the first n encodings of buf
RECURSIVE SumLen(_)
SumLen(n) == IF n = 0 THEN 0 ELSE SumLen(n - 1) + Len(items[n].bytes)

\* the first n decode calls used, in order, the decoders of the first n
\* encodings
Matched(n) == n <= Len(items) /\ \A m \in 1..n : calls[m].op = items[m].kind

\* C10: on a buffer of concatenated encodings followed by arbitrary bytes,
\* successive decode calls from cursor 0 return the encoded values in
\* order, and the cursor after k calls is the summed length of the first k
\* encodings, whatever the trailing bytes.
CursorAdvance ==
    /\ calls # <<>> => cursor = calls[Len(calls)].out.index
    /\ \A j \in 1..Len(calls) :
           (origin = 0 /\ Matched(j)) =>
               /\ calls[j].start = SumLen(j - 1)
               /\ calls[j].out =
                      Res("Ok", items[j].num, items[j].constructed,
                          items[j].class, SumLen(j))

CursorAdvanceWitness ==
    /\ Len(calls) >= 2 /\ Matched(2) /\ trail > 0
    /\ Len(items[1].bytes) > 1 /\ items[1].kind = "tag" /\ items[2].kind = "length"
    /\ calls[2].out.st = "Ok" /\ cursor = Len(buf) - trail

(***************************************************************************)
(* The state machine of block comparison: a caller builds two blocks, leaf *)
(* first, and compares them.                                               *)
(***************************************************************************)
Offsets == {0, 1}
Payloads == {<<1>>, <<2>>}
BitCounts == {7, 8}
Tags == {1, 2}
UnknownShapes ==
    {<<"Private", FALSE, 1, <<1>>>>, <<"Universal", FALSE, 1, <<1>>>>,
     <<"Private", TRUE, 1, <<1>>>>, <<"Private", FALSE, 2, <<1>>>>,
     <<"Private", FALSE, 1, <<2>>>>}

Leaves ==
    {Prim(v, o, p) : v \in PrimVariants, o \in Offsets, p \in Payloads}
        \cup {BitString(o, n, p) : o \in Offsets, n \in BitCounts, p \in Payloads}
        \cup {Null(o) : o \in Offsets}
        \cup {Unknown(u[1], u[2], o, u[3], u[4]) : u \in UnknownShapes, o \in Offsets}

\* the pairs of leaves compared: every pair of one variant, and the pairs of
\* two variants that agree on every payload field they can
LeafPair(a, b) ==
    \/ a.variant = b.variant
    \/ a.offset = 0 /\ a.val \in {<<1>>, <<>>} /\ b.val \in {<<1>>, <<>>}
          /\ a.bits \in {0, 7} /\ b.bits \in {0, 7}
          /\ a.class \in {"-", "Private"} /\ b.class \in {"-", "Private"}
          /\ a.tag < 2 /\ b.tag < 2 /\ ~a.constructed /\ ~b.constructed

RECURSIVE Depth(_)
Depth(b) ==
    IF b.children = <<>> THEN 0
    ELSE 1 + Depth(b.children[1])

InitEq ==
    /\ buf = <<>>
    /\ cursor = 0
    /\ origin = 0
    /\ items = <<>>
    /\ trail = 0
    /\ cut = FALSE
    /\ calls = <<>>
    /\ panicked = FALSE
    /\ oid = <<>>
    /\ raw = NoRaw
    /\ lhs = NoBlock
    /\ rhs = NoBlock
    /\ eqres = "none"

CanWrap == lhs # NoBlock /\ eqres = "none" /\ Depth(lhs) < MaxDepth

Built(l, r) ==
    /\ lhs' = l
    /\ rhs' = r
    /\ UNCHANGED <<codecVars, panicked, oidVars, eqres>>

\* two leaf blocks
NewLeaves(a, b) == lhs = NoBlock /\ Built(a, b)

\* ASN1Block::Sequence(o, vec![block]) on both sides
WrapSequence(oL, oR) ==
    CanWrap /\ Built(Sequence(oL, <<lhs>>), Sequence(oR, <<rhs>>))

\* ASN1Block::Set(o, vec![block]) on both sides
WrapSet(oL, oR) ==
    CanWrap /\ Built(Set(oL, <<lhs>>), Set(oR, <<rhs>>))

\* a Sequence on the left, a Set on the right
WrapMixed(oL, oR) ==
    CanWrap /\ Built(Sequence(oL, <<lhs>>), Set(oR, <<rhs>>))

\* a container on the left only
WrapLeft(oL) ==
    CanWrap /\ Built(Sequence(oL, <<lhs>>), rhs)

\* ASN1Block::Explicit(class, o, tag, Box::new(block)) on both sides
WrapExplicit(cL, oL, tL, cR, oR, tR) ==
    CanWrap /\ Built(Explicit(cL, oL, tL, lhs), Explicit(cR, oR, tR, rhs))

\* Sequences of two children, in the same or in the opposite order
WrapPair(oL, oR, swap) ==
    CanWrap /\ Built(Sequence(oL, <<lhs, rhs>>),
                     Sequence(oR, IF swap THEN <<rhs, lhs>> ELSE <<lhs, rhs>>))

\* Sequences of different lengths
WrapExtend(oL, oR) ==
    CanWrap /\ Built(Sequence(oL, <<lhs>>), Sequence(oR, <<rhs, rhs>>))

\* lhs == rhs
Compare ==
    /\ lhs # NoBlock /\ eqres = "none"
    /\ eqres' = (IF ASN1Block_eq(lhs, rhs) THEN "true" ELSE "false")
    /\ UNCHANGED <<codecVars, panicked, oidVars, lhs, rhs>>

NextEq ==
    \/ lhs = NoBlock /\ \E a \in Leaves, b \in Leaves : LeafPair(a, b) /\ NewLeaves(a, b)
    \/ \E oR \in Offsets : WrapSequence(0, oR)
    \/ \E oR \in Offsets : WrapSet(0, oR)
    \/ \E oR \in Offsets : WrapMixed(0, oR)
    \/ WrapLeft(0)
    \/ \E cR \in {"Application", "Private"}, oR \in Offsets, tR \in Tags :
            WrapExplicit("Application", 0, 1, cR, oR, tR)
    \/ \E oR \in Offsets, swap \in BOOLEAN : WrapPair(0, oR, swap)
    \/ \E oR \in Offsets : WrapExtend(0, oR)
    \/ Compare

SpecEq == InitEq /\ [][NextEq]_vars

\* a block without its offsets, at every depth
RECURSIVE Strip(_)
Strip(b) ==
    [variant |-> b.variant, class |-> b.class, constructed |-> b.constructed,
     tag |-> b.tag, bits |-> b.bits, val |-> b.val,
     children |-> [j \in 1..Len(b.children) |-> Strip(b.children[j])]]

\* C9: == is true exactly when both blocks are the same variant with equal
\* payloads, children compared recursively, whatever the offsets at any
\* depth; blocks of different variants are never equal.
EqIgnoresOffsets ==
    eqres # "none" =>
        /\ eqres = "true" <=> Strip(lhs) = Strip(rhs)
        /\ lhs.variant # rhs.variant => eqres = "false"

EqIgnoresOffsetsWitness ==
    /\ eqres = "true"
    /\ lhs.variant = "Explicit" /\ lhs.offset # rhs.offset
    /\ lhs.children[1].offset # rhs.children[1].offset

====
